---- MODULE Spec2Model ----
(***************************************************************************)
(* A model of itkwasm's Pipeline (src/python/itkwasm/itkwasm/pipeline.py): *)
(* the host runtime that instantiates an itk-wasm WASI module, stages the  *)
(* typed inputs in guest linear memory, drives _initialize /               *)
(* itk_wasm_delayed_start / itk_wasm_delayed_exit and decodes the outputs. *)
(*                                                                         *)
(* Granularity.  Pipeline.run is one Python call, but every guest call in  *)
(* it is a point where the guest decides something (a pointer, a return    *)
(* code, a trap).  The run is therefore a small process: one action per    *)
(* phase of run (argument handling, instantiation, _initialize, one input, *)
(* delayed_start, one output, delayed_exit), each action performing all    *)
(* the guest calls and memory accesses of its phase in source order and    *)
(* logging them in the run's call log.                                     *)
(*                                                                         *)
(* Abstractions.  A cell of linear memory is a byte <<"b", n>> or one unit *)
(* of JSON text: an opening or closing brace, or one "key": value member.  *)
(* The length json.dumps(...).encode() has in the model is the number of   *)
(* those units.  A typed (numpy) array is its dtype and its elements, each *)
(* element being the little-endian bytes of one scalar.                    *)
(***************************************************************************)
EXTENDS Integers, Sequences, FiniteSets, TLC

\* Bounds of the model.
MaxSlots == 2      \* len(inputs) + len(outputs) of one call of run
MaxRuns == 2       \* calls of run on the one Pipeline object

Threads == {"t1", "t2"}

Min(a, b) == IF a < b THEN a ELSE b

RECURSIVE Flatten(_)
Flatten(ss) == IF ss = <<>> THEN <<>> ELSE Head(ss) \o Flatten(Tail(ss))

Range(s) == {s[i] : i \in 1..Len(s)}

-----------------------------------------------------------------------------
(* Bytes, typed arrays, text *)

\* IntTypes / FloatTypes members accepted by _memoryview_to_numpy_array, with
\* the item size of the numpy dtype each is mapped to.
ComponentTypes ==
    {"uint8", "int8", "uint16", "int16", "uint32", "int32", "uint64", "int64",
     "float32", "float64"}

ElemSize(ct) ==
    CASE ct \in {"uint8", "int8"} -> 1
      [] ct \in {"uint16", "int16"} -> 2
      [] ct \in {"uint32", "int32", "float32"} -> 4
      [] ct \in {"uint64", "int64", "float64"} -> 8

\* A numpy array: dtype and elements (each the bytes of one scalar).
Arr(ct, elems) == [dtype |-> ct, elems |-> elems]

\* bytes(array) / bytes(array.data): the raw buffer of the array.
ToBytes(arr) == Flatten(arr.elems)

\* np.frombuffer(buf, dtype=...).copy() for the component type, or the
\* ValueError of an unsupported component type or of a buffer whose size is
\* no multiple of the item size.
_memoryview_to_numpy_array(ct, buf) ==
    IF ct \notin ComponentTypes
    THEN [ok |-> FALSE, err |-> "UnsupportedComponentType", value |-> <<>>]
    ELSE LET n == ElemSize(ct) IN
         IF Len(buf) % n # 0
         THEN [ok |-> FALSE, err |-> "MisalignedBuffer", value |-> <<>>]
         ELSE [ok |-> TRUE, err |-> "",
               value |-> Arr(ct, [i \in 1..(Len(buf) \div n) |->
                                    SubSeq(buf, (i - 1) * n + 1, i * n)])]

\* str.encode(): UTF-8 of a text given as code points below 2048.
Utf8Char(cp) ==
    IF cp < 128 THEN <<cp>> ELSE <<192 + (cp \div 64), 128 + (cp % 64)>>

Utf8Encode(text) == Flatten([i \in 1..Len(text) |-> Utf8Char(text[i])])

\* bytes.decode(): the text, or UnicodeDecodeError.  Lead bytes of three- and
\* four-byte sequences are outside the alphabet of the model's payloads and
\* are rejected like every other invalid byte.
RECURSIVE Utf8Decode(_)
Utf8Decode(bs) ==
    IF bs = <<>> THEN [ok |-> TRUE, text |-> <<>>]
    ELSE LET b == Head(bs) IN
         IF b < 128
         THEN LET r == Utf8Decode(Tail(bs)) IN
              [ok |-> r.ok, text |-> IF r.ok THEN <<b>> \o r.text ELSE <<>>]
         ELSE IF /\ b >= 194 /\ b < 224 /\ Len(bs) >= 2
                 /\ bs[2] >= 128 /\ bs[2] < 192
         THEN LET r == Utf8Decode(Tail(Tail(bs))) IN
              [ok |-> r.ok,
               text |-> IF r.ok
                        THEN <<(b - 192) * 64 + (bs[2] - 128)>> \o r.text
                        ELSE <<>>]
         ELSE [ok |-> FALSE, text |-> <<>>]

-----------------------------------------------------------------------------
(* Linear memory *)

ByteCell(n) == <<"b", n>>
Cells(bytes) == [i \in 1..Len(bytes) |-> ByteCell(bytes[i])]
IsByteCell(c) == c[1] = "b"

\* memoryview(memory.buffer)[ptr:ptr+size]: a Python slice, clipped to the
\* buffer.
Slice(m, ptr, size) == SubSeq(m, Min(ptr, Len(m)) + 1, Min(ptr + size, Len(m)))

\* buf[ptr:ptr+len(data)] = data: the assignment needs the slice to have the
\* length of data.
CanAssign(m, ptr, n) == Len(Slice(m, ptr, n)) = n

AssignOffByOne(m, ptr, cells) ==
    [a \in 1..Len(m) |->
        IF a >= ptr /\ a < ptr + Len(cells) /\ a >= 1 THEN cells[a - ptr + 1] ELSE m[a]]

Assign(m, ptr, cells) ==
    [a \in 1..Len(m) |->
        IF a > ptr /\ a <= ptr + Len(cells) THEN cells[a - ptr] ELSE m[a]]

-----------------------------------------------------------------------------
(* JSON and the address URL *)

\* f"data:application/vnd.itk.address,0:{ptr}"
AddressUrl(ptr) == "data:application/vnd.itk.address,0:" \o ToString(ptr)

LBrace == <<"{">>
RBrace == <<"}">>
Member(kv) == <<"m", kv[1], kv[2]>>

\* json.dumps(obj).encode() of a dict given as its (key, value) pairs in
\* insertion order.
JsonDumps(obj) == <<LBrace>> \o [i \in 1..Len(obj) |-> Member(obj[i])] \o <<RBrace>>

IsJson(cells) ==
    /\ Len(cells) >= 2
    /\ cells[1] = LBrace
    /\ cells[Len(cells)] = RBrace
    /\ \A i \in 2..(Len(cells) - 1) : cells[i][1] = "m"

\* json.loads(text) of text that IsJson: the dict, a function on its keys.
JsonLoads(cells) ==
    LET ms == SubSeq(cells, 2, Len(cells) - 1)
        keys == {ms[i][2] : i \in 1..Len(ms)}
        last(k) == CHOOSE i \in 1..Len(ms) :
                       /\ ms[i][2] = k
                       /\ \A j \in (i + 1)..Len(ms) : ms[j][2] # k
    IN [k \in keys |-> ms[last(k)][3]]

-----------------------------------------------------------------------------
(* Interface types and payloads *)

FileTypes == {"TextFile", "BinaryFile"}

\* The members of InterfaceTypes that run dispatches on.
InterfaceTypes ==
    {"TextStream", "BinaryStream", "TextFile", "BinaryFile", "Image", "Mesh",
     "PolyData"}

\* str(path.parent) of a path given as its components.
Parent(path) == SubSeq(path, 1, Len(path) - 1)

EmptyArr(ct) == Arr(ct, <<>>)
U8(bs) == Arr("uint8", [i \in 1..Len(bs) |-> <<bs[i]>>])

ImageType == [dimension |-> 1, componentType |-> "uint8",
              pixelType |-> "Scalar", components |-> 1]
MeshType == [dimension |-> 1, pointComponentType |-> "uint8",
             pointPixelComponentType |-> "uint8", pointPixelType |-> "Scalar",
             pointPixelComponents |-> 1, cellComponentType |-> "uint16",
             cellPixelComponentType |-> "uint8", cellPixelType |-> "Scalar",
             cellPixelComponents |-> 1]
PolyDataType == [pointPixelComponentType |-> "uint8",
                 pointPixelType |-> "Scalar", pointPixelComponents |-> 1,
                 cellPixelComponentType |-> "uint8",
                 cellPixelType |-> "Scalar", cellPixelComponents |-> 1]

\* The float64 1.0, little-endian: the 1 x 1 identity direction.
One64 == <<0, 0, 0, 0, 0, 0, 240, 63>>

AnImage(it, pixels) ==
    [imageType |-> it, name |-> "image", origin |-> <<0>>, spacing |-> <<1>>,
     size |-> <<Len(pixels.elems)>>, data |-> pixels,
     direction |-> Arr("float64", <<One64>>)]

\* A mesh whose four counts are g[1..4]; a buffer is present exactly when
\* its count is not zero.
AMesh(mt, g) ==
    [meshType |-> mt, name |-> "mesh",
     numberOfPoints |-> g[1],
     points |-> IF g[1] # 0 THEN Arr(mt.pointComponentType, <<<<11>>>>)
                ELSE EmptyArr(mt.pointComponentType),
     numberOfCells |-> g[2],
     cells |-> IF g[2] # 0 THEN Arr(mt.cellComponentType, <<<<12, 0>>>>)
               ELSE EmptyArr(mt.cellComponentType),
     cellBufferSize |-> g[2],
     numberOfPointPixels |-> g[3],
     pointData |-> IF g[3] # 0 THEN Arr(mt.pointPixelComponentType, <<<<13>>>>)
                   ELSE EmptyArr(mt.pointPixelComponentType),
     numberOfCellPixels |-> g[4],
     cellData |-> IF g[4] # 0 THEN Arr(mt.cellPixelComponentType, <<<<14>>>>)
                  ELSE EmptyArr(mt.cellPixelComponentType)]

\* A polydata whose seven gating counts are g[1..7].
APolyData(pt, g) ==
    [polyDataType |-> pt, name |-> "polydata",
     numberOfPoints |-> g[1],
     points |-> IF g[1] # 0 THEN Arr("float32", <<<<0, 0, 128, 63>>>>)
                ELSE EmptyArr("float32"),
     verticesBufferSize |-> g[2],
     vertices |-> IF g[2] # 0 THEN Arr("uint32", <<<<22, 0, 0, 0>>>>)
                  ELSE EmptyArr("uint32"),
     linesBufferSize |-> g[3],
     lines |-> IF g[3] # 0 THEN Arr("uint32", <<<<23, 0, 0, 0>>>>)
               ELSE EmptyArr("uint32"),
     polygonsBufferSize |-> g[4],
     polygons |-> IF g[4] # 0 THEN Arr("uint32", <<<<24, 0, 0, 0>>>>)
                  ELSE EmptyArr("uint32"),
     triangleStripsBufferSize |-> g[5],
     triangleStrips |-> IF g[5] # 0 THEN Arr("uint32", <<<<25, 0, 0, 0>>>>)
                        ELSE EmptyArr("uint32"),
     numberOfPointPixels |-> g[6],
     pointData |-> IF g[6] # 0 THEN Arr(pt.pointPixelComponentType, <<<<26>>>>)
                   ELSE EmptyArr(pt.pointPixelComponentType),
     numberOfCellPixels |-> g[7],
     cellData |-> IF g[7] # 0 THEN Arr(pt.cellPixelComponentType, <<<<27>>>>)
                  ELSE EmptyArr(pt.cellPixelComponentType)]

MeshGates == {<<0, 0, 0, 0>>, <<1, 1, 1, 1>>, <<1, 0, 0, 1>>}
PolyDataGates ==
    {<<0, 0, 0, 0, 0, 0, 0>>, <<1, 1, 1, 1, 1, 1, 1>>, <<0, 1, 0, 0, 1, 0, 1>>}

PipelineInput(type, data) == [type |-> type, data |-> data]

\* The inputs a caller passes; "JsonObject" stands for every type run has no
\* branch for.
InputChoices ==
    {PipelineInput("TextStream", [data |-> <<104, 233>>]),
     PipelineInput("BinaryStream", [data |-> <<0, 255>>]),
     PipelineInput("TextFile", [path |-> <<"tmp", "a", "in.txt">>]),
     PipelineInput("BinaryFile", [path |-> <<"tmp", "b", "in.bin">>]),
     PipelineInput("Image", AnImage(ImageType, U8(<<1, 2>>))),
     PipelineInput("JsonObject", [data |-> <<>>])}
    \cup {PipelineInput("Mesh", AMesh(MeshType, g)) : g \in MeshGates}
    \cup {PipelineInput("PolyData", APolyData(PolyDataType, g)) : g \in PolyDataGates}

\* The output slots a caller declares: a type, and for the file types a path.
PipelineOutput(type, data) == [type |-> type, data |-> data]

OutputChoices ==
    {PipelineOutput(ty, [none |-> TRUE]) :
        ty \in (InterfaceTypes \ FileTypes) \cup {"JsonObject"}}
    \cup {PipelineOutput("TextFile", [path |-> <<"tmp", "a", "out.txt">>]),
          PipelineOutput("BinaryFile", [path |-> <<"tmp", "c", "out.bin">>])}

SeqsUpTo(S, n) == UNION {[1..k -> S] : k \in 0..n}

-----------------------------------------------------------------------------
(* The state *)

VARIABLES
    module,   \* the compiled module: its exports and how its guest code behaves
    self,     \* the Pipeline object's cached handles: field -> instance (0: unset)
    mem,      \* instance -> its linear memory, a sequence of cells
    guest,    \* instance -> the guest's own state (allocator, output tables)
    run,      \* thread -> the activation of Pipeline.run it is in: the locals of
              \* run, the exception or the tuple it ended with, its call log,
              \* (produced) what the guest's program computed per output,
              \* (identity) whether that program echoed the staged inputs, and
              \* (assigned) per populated output the attributes run assigned
              \* a typed array to, and (views) per populated output the views
              \* of linear memory its value still reads through
    nruns,    \* calls of run so far; the n-th call creates instance n
    active    \* the threads that call run

vars == <<module, self, mem, guest, run, nruns, active>>

Instances == 1..MaxRuns

\* The exports run binds on the Pipeline object, in the order it reads them.
CachedExports ==
    <<"memory", "itk_wasm_input_array_alloc", "itk_wasm_input_json_alloc",
      "itk_wasm_output_array_address", "itk_wasm_output_array_size",
      "itk_wasm_output_json_address", "itk_wasm_output_json_size">>

RequiredExports ==
    Range(CachedExports)
    \cup {"_initialize", "itk_wasm_delayed_start", "itk_wasm_delayed_exit"}

\* How the guest's two input allocators answer: "bump" hands out consecutive
\* regions and grows memory to hold them; "reuse" returns the same address
\* every time (the regions overlap); "oob" returns the address of the end of
\* memory and grows nothing, and the guest's output table too then reports
\* every buffer at the end of memory.
AllocModes == {"bump", "reuse", "oob"}

InitialMemory == <<ByteCell(0)>>
NoGuest == [brk |-> 0, out |-> <<>>]

\* What itk_wasm_delayed_start returns.
ReturnCodes == {0, 1, 3}

\* One entry of a run's call log: a guest call (fn is the export's name) or a
\* host access to linear memory (fn is "mem_read" or "mem_write", arg the
\* length, ret the address), with the instance it went to.
Event(fn, inst, slot, sub, arg, ret) ==
    [fn |-> fn, inst |-> inst, slot |-> slot, sub |-> sub, arg |-> arg, ret |-> ret]

NoRun ==
    [pc |-> "idle", inst |-> 0, inputs |-> <<>>, outputs |-> <<>>,
     preopen_directories |-> <<>>, index |-> 0, return_code |-> 0,
     populated_outputs |-> <<>>, err |-> "", log |-> <<>>, produced |-> <<>>,
     identity |-> FALSE, assigned |-> <<>>, views |-> <<>>]

Init ==
    /\ module \in [exports : {RequiredExports} \cup
                             {RequiredExports \ {e} : e \in RequiredExports},
                   alloc : AllocModes]
    /\ self = [f \in Range(CachedExports) |-> 0]
    /\ mem = [i \in Instances |-> <<>>]
    /\ guest = [i \in Instances |-> NoGuest]
    /\ run = [t \in Threads |-> NoRun]
    /\ nruns = 0
    /\ active = {"t1"}

\* Two threads share the Pipeline object of a module that has every export.
InitShared ==
    /\ module = [exports |-> RequiredExports, alloc |-> "bump"]
    /\ self = [f \in Range(CachedExports) |-> 0]
    /\ mem = [i \in Instances |-> <<>>]
    /\ guest = [i \in Instances |-> NoGuest]
    /\ run = [t \in Threads |-> NoRun]
    /\ nruns = 0
    /\ active = Threads

-----------------------------------------------------------------------------
(* Pipeline.run: arguments and the WASI environment *)

SetAddAgain(dirs, d) == Append(dirs, d)

\* preopen_directories.add(d) on a Python set, kept here as the list that
\* list(preopen_directories) makes of it (in insertion order; Python fixes
\* no order).
SetAdd(dirs, d) == IF d \in Range(dirs) THEN dirs ELSE Append(dirs, d)

\* One of the two preopen_directories loops, from position k of the list on.
RECURSIVE AddParents(_, _, _)
AddParents(dirs, items, k) ==
    IF k > Len(items) THEN dirs
    ELSE AddParents(IF items[k].type \in FileTypes
                    THEN SetAdd(dirs, Parent(items[k].data.path))
                    ELSE dirs,
                    items, k + 1)

\* The preopen_directories loops, over the inputs and then the outputs.
PreopenDirectories(inputs, outputs) ==
    AddParents(AddParents(<<>>, inputs, 1), outputs, 1)

\* The activation of run(args, outputs, inputs) up to wasi_state.finalize().
Call(inputs, outputs) ==
    [NoRun EXCEPT !.pc = "instantiate",
                  !.inst = nruns + 1,
                  !.inputs = inputs,
                  !.outputs = outputs,
                  !.preopen_directories = PreopenDirectories(inputs, outputs)]

\* A thread calls run(args, outputs, inputs).
Run(t) ==
    /\ t \in active
    /\ run[t].pc = "idle"
    /\ nruns < MaxRuns
    /\ \E inputs \in SeqsUpTo(InputChoices, MaxSlots) :
       \E outputs \in SeqsUpTo(OutputChoices, MaxSlots - Len(inputs)) :
          run' = [run EXCEPT ![t] = Call(inputs, outputs)]
    /\ nruns' = nruns + 1
    /\ UNCHANGED <<module, self, mem, guest, active>>

\* The calls two threads that share the Pipeline object make: a stream in
\* and a stream out.
SharedCalls ==
    {<<<<PipelineInput("BinaryStream", [data |-> <<0, 255>>])>>,
       <<PipelineOutput("BinaryStream", [none |-> TRUE])>>>>}

\* A thread calls run while another thread may be inside run on the same
\* Pipeline object.
RunShared(t) ==
    /\ t \in active
    /\ run[t].pc = "idle"
    /\ nruns < MaxRuns
    /\ \E c \in SharedCalls : run' = [run EXCEPT ![t] = Call(c[1], c[2])]
    /\ nruns' = nruns + 1
    /\ UNCHANGED <<module, self, mem, guest, active>>

\* The run ends: an exception leaves run, or run returns.  Its Instance is
\* unreachable from then on.
Raise(r, err, log) == [r EXCEPT !.pc = "raised", !.err = err, !.log = log]

Release(f, i) == [f EXCEPT ![i] = <<>>]
ReleaseGuest(f, i) == [f EXCEPT ![i] = NoGuest]

\* instance = Instance(...) and the seven self.<field> = instance.exports.<name>
\* assignments: the fields before the first missing export are rebound, then
\* the lookup of the missing one raises.
FirstMissing(exports) ==
    IF \E k \in 1..Len(CachedExports) : CachedExports[k] \notin exports
    THEN CHOOSE k \in 1..Len(CachedExports) :
            /\ CachedExports[k] \notin exports
            /\ \A j \in 1..(k - 1) : CachedExports[j] \in exports
    ELSE Len(CachedExports) + 1

RebindUnset(handles, i, k) ==
    [f \in Range(CachedExports) |->
        IF handles[f] = 0 /\ \E j \in 1..(k - 1) : CachedExports[j] = f
        THEN i ELSE handles[f]]

\* self.<field> = instance.exports.<name> for the first k - 1 fields: each is
\* rebound to the export of instance i, whatever it held.
Rebind(handles, i, k) ==
    [f \in Range(CachedExports) |->
        IF \E j \in 1..(k - 1) : CachedExports[j] = f THEN i ELSE handles[f]]

Instantiate(t) ==
    /\ run[t].pc = "instantiate"
    /\ LET r == run[t]
           i == r.inst
           k == FirstMissing(module.exports)
       IN /\ self' = Rebind(self, i, k)
          /\ IF k <= Len(CachedExports)
             THEN /\ run' = [run EXCEPT ![t] = Raise(r, "LookupError", r.log)]
                  /\ UNCHANGED <<mem, guest>>
             ELSE /\ run' = [run EXCEPT ![t].pc = "initialize"]
                  /\ mem' = [mem EXCEPT ![i] = InitialMemory]
                  /\ guest' = [guest EXCEPT ![i] = [brk |-> 1, out |-> <<>>]]
    /\ UNCHANGED <<module, nruns, active>>

\* _initialize = instance.exports._initialize; _initialize()
AfterInitialize(r) == IF Len(r.inputs) > 0 THEN "inputs" ELSE "start"

InitializeNotCalled(t) ==
    /\ run[t].pc = "initialize"
    /\ run' = [run EXCEPT ![t].pc = AfterInitialize(run[t])]
    /\ UNCHANGED <<module, self, mem, guest, nruns, active>>

Initialize(t) ==
    /\ run[t].pc = "initialize"
    /\ LET r == run[t]
           i == r.inst
           call == Append(r.log, Event("_initialize", i, -1, -1, -1, -1))
       IN IF "_initialize" \notin module.exports
          THEN /\ run' = [run EXCEPT ![t] = Raise(r, "LookupError", r.log)]
               /\ mem' = Release(mem, i)
               /\ guest' = ReleaseGuest(guest, i)
          ELSE \/ /\ run' = [run EXCEPT ![t] =
                               [r EXCEPT !.pc = AfterInitialize(r), !.log = call]]
                  /\ UNCHANGED <<mem, guest>>
               \/ \* the guest traps
                  /\ run' = [run EXCEPT ![t] = Raise(r, "RuntimeError", call)]
                  /\ mem' = Release(mem, i)
                  /\ guest' = ReleaseGuest(guest, i)
    /\ UNCHANGED <<module, self, nruns, active>>

-----------------------------------------------------------------------------
(* The guest's input allocators *)

Grow(m, n) == IF Len(m) >= n THEN m ELSE m \o [i \in 1..(n - Len(m)) |-> ByteCell(0)]

\* itk_wasm_input_array_alloc / itk_wasm_input_json_alloc asked for size
\* cells: the pointer returned, and the guest and its memory afterwards.
GuestAlloc(g, m, size) ==
    CASE module.alloc = "bump" ->
            [ptr |-> g.brk, guest |-> [g EXCEPT !.brk = g.brk + size],
             mem |-> Grow(m, g.brk + size)]
      [] module.alloc = "reuse" ->
            [ptr |-> 1, guest |-> g, mem |-> Grow(m, 1 + size)]
      [] module.alloc = "oob" ->
            [ptr |-> Len(m), guest |-> g, mem |-> m]

-----------------------------------------------------------------------------
(* Staging the inputs *)

\* The progress of one phase of run: memories and guests, the call log, the
\* pointers obtained so far, the exception raised (if any) and the number of
\* guest calls made in this phase.  The guest call numbered trapAt traps.
Phase(r) == [mem |-> mem, guest |-> guest, log |-> r.log, ptrs |-> <<>>,
             err |-> "", n |-> 0]

\* An optional bytes value: None, or the bytes.
None == [none |-> TRUE, bytes |-> <<>>]
Some(bytes) == [none |-> FALSE, bytes |-> bytes]

\* Pipeline._set_input_array
_set_input_array(st, data_array, input_index, sub_index, trapAt) ==
    IF st.err # "" THEN st
    ELSE IF data_array.none THEN [st EXCEPT !.ptrs = Append(st.ptrs, 0)]
    ELSE
    LET ha == self["itk_wasm_input_array_alloc"]
        hm == self["memory"]
        size == Len(data_array.bytes)
        call(ret) == Event("itk_wasm_input_array_alloc", ha, input_index,
                           sub_index, size, ret)
        write(a, mem1) ==
            IF st.n + 1 = trapAt
            THEN [st EXCEPT !.err = "RuntimeError", !.n = st.n + 1,
                            !.log = Append(st.log, call(-1))]
            ELSE IF ~CanAssign(mem1[hm], a.ptr, size)
            THEN [st EXCEPT !.err = "ValueError", !.n = st.n + 1,
                            !.mem = mem1,
                            !.guest = [st.guest EXCEPT ![ha] = a.guest],
                            !.log = Append(st.log, call(a.ptr))]
            ELSE [st EXCEPT !.n = st.n + 1,
                            !.mem = [mem1 EXCEPT ![hm] =
                                        Assign(mem1[hm], a.ptr, Cells(data_array.bytes))],
                            !.guest = [st.guest EXCEPT ![ha] = a.guest],
                            !.ptrs = Append(st.ptrs, a.ptr),
                            !.log = st.log \o
                                    <<call(a.ptr), Event("mem_write", hm, input_index,
                                                         sub_index, size, a.ptr)>>]
        alloc(a) == write(a, [st.mem EXCEPT ![ha] = a.mem])
    IN alloc(GuestAlloc(st.guest[ha], st.mem[ha], size))

\* Pipeline._set_input_json
_set_input_json(st, data_object, input_index, trapAt) ==
    IF st.err # "" THEN st
    ELSE
    LET ha == self["itk_wasm_input_json_alloc"]
        hm == self["memory"]
        call(size, ret) == Event("itk_wasm_input_json_alloc", ha, input_index, -1,
                                 size, ret)
        write(data_json, size, a, mem1) ==
            IF st.n + 1 = trapAt
            THEN [st EXCEPT !.err = "RuntimeError", !.n = st.n + 1,
                            !.log = Append(st.log, call(size, -1))]
            ELSE IF ~CanAssign(mem1[hm], a.ptr, size)
            THEN [st EXCEPT !.err = "ValueError", !.n = st.n + 1,
                            !.mem = mem1,
                            !.guest = [st.guest EXCEPT ![ha] = a.guest],
                            !.log = Append(st.log, call(size, a.ptr))]
            ELSE [st EXCEPT !.n = st.n + 1,
                            !.mem = [mem1 EXCEPT ![hm] =
                                        Assign(mem1[hm], a.ptr, data_json)],
                            !.guest = [st.guest EXCEPT ![ha] = a.guest],
                            !.log = st.log \o
                                    <<call(size, a.ptr),
                                      Event("mem_write", hm, input_index, -1,
                                            size, a.ptr)>>]
        alloc(data_json, a) ==
            write(data_json, Len(data_json), a, [st.mem EXCEPT ![ha] = a.mem])
        dump(data_json) ==
            alloc(data_json, GuestAlloc(st.guest[ha], st.mem[ha], Len(data_json)))
    IN dump(JsonDumps(data_object))

\* The byte buffers run passes to _set_input_array for one input, in the
\* order of the calls; the position in the list is the sub-index plus one.
Gated(count, arr) == IF count # 0 THEN Some(ToBytes(arr)) ELSE Some(<<>>)

InputArrays(input_) ==
    LET d == input_.data IN
    CASE input_.type = "TextStream" -> <<Some(Utf8Encode(d.data))>>
      [] input_.type = "BinaryStream" -> <<Some(d.data)>>
      [] input_.type = "Image" -> <<Some(ToBytes(d.data)), Some(ToBytes(d.direction))>>
      [] input_.type = "Mesh" ->
            <<Gated(d.numberOfPoints, d.points),
              Gated(d.numberOfCells, d.cells),
              Gated(d.numberOfPointPixels, d.pointData),
              Gated(d.numberOfCellPixels, d.cellData)>>
      [] input_.type = "PolyData" ->
            <<Gated(d.numberOfPoints, d.points),
              Gated(d.verticesBufferSize, d.vertices),
              Gated(d.linesBufferSize, d.lines),
              Gated(d.polygonsBufferSize, d.polygons),
              Gated(d.triangleStripsBufferSize, d.triangleStrips),
              Gated(d.numberOfPointPixels, d.pointData),
              Gated(d.numberOfCellPixels, d.cellData)>>
      [] OTHER -> <<>>

\* The dict run passes to _set_input_json for one input, as its (key, value)
\* pairs; p are the pointers _set_input_array returned, in call order.
InputJson(input_, p) ==
    LET d == input_.data IN
    CASE input_.type \in {"TextStream", "BinaryStream"} ->
            <<<<"size", Len(InputArrays(input_)[1].bytes)>>,
              <<"data", AddressUrl(p[1])>>>>
      [] input_.type = "Image" ->
            <<<<"imageType", d.imageType>>,
              <<"name", d.name>>,
              <<"origin", d.origin>>,
              <<"spacing", d.spacing>>,
              <<"direction", AddressUrl(p[2])>>,
              <<"size", d.size>>,
              <<"data", AddressUrl(p[1])>>>>
      [] input_.type = "Mesh" ->
            <<<<"meshType", d.meshType>>,
              <<"name", d.name>>,
              <<"numberOfPoints", d.numberOfPoints>>,
              <<"points", AddressUrl(p[1])>>,
              <<"numberOfCells", d.numberOfCells>>,
              <<"cells", AddressUrl(p[2])>>,
              <<"cellBufferSize", d.cellBufferSize>>,
              <<"numberOfPointPixels", d.numberOfPointPixels>>,
              <<"pointData", AddressUrl(p[3])>>,
              <<"numberOfCellPixels", d.numberOfCellPixels>>,
              <<"cellData", AddressUrl(p[4])>>>>
      [] input_.type = "PolyData" ->
            <<<<"polyDataType", d.polyDataType>>,
              <<"name", d.name>>,
              <<"numberOfPoints", d.numberOfPoints>>,
              <<"points", AddressUrl(p[1])>>,
              <<"verticesBufferSize", d.verticesBufferSize>>,
              <<"vertices", AddressUrl(p[2])>>,
              <<"linesBufferSize", d.linesBufferSize>>,
              <<"lines", AddressUrl(p[3])>>,
              <<"polygonsBufferSize", d.polygonsBufferSize>>,
              <<"polygons", AddressUrl(p[4])>>,
              <<"triangleStripsBufferSize", d.triangleStripsBufferSize>>,
              <<"triangleStrips", AddressUrl(p[5])>>,
              <<"numberOfPointPixels", d.numberOfPointPixels>>,
              <<"pointData", AddressUrl(p[6])>>,
              <<"numberOfCellPixels", d.numberOfCellPixels>>,
              <<"cellData", AddressUrl(p[7])>>>>

RECURSIVE SetInputArraysDescending(_, _, _, _, _)
SetInputArraysDescending(st, arrays, input_index, k, trapAt) ==
    IF k >= Len(arrays) THEN st
    ELSE _set_input_array(
            SetInputArraysDescending(st, arrays, input_index, k + 1, trapAt),
            arrays[k + 1], input_index, k, trapAt)

\* The _set_input_array calls of one input, sub-index k onwards.
RECURSIVE SetInputArrays(_, _, _, _, _)
SetInputArrays(st, arrays, input_index, k, trapAt) ==
    IF k >= Len(arrays) THEN st
    ELSE SetInputArrays(
            _set_input_array(st, arrays[k + 1], input_index, k, trapAt),
            arrays, input_index, k + 1, trapAt)

EncodeInputFirstPointer(st, input_, index, trapAt) ==
    IF input_.type \in FileTypes THEN st
    ELSE IF input_.type \notin InterfaceTypes
    THEN [st EXCEPT !.err = "ValueError"]
    ELSE LET json(s1) ==
                 IF s1.err # "" THEN s1
                 ELSE _set_input_json(
                         s1, InputJson(input_, [k \in 1..Len(s1.ptrs) |-> s1.ptrs[1]]),
                         index, trapAt)
         IN json(SetInputArrays(st, InputArrays(input_), index, 0, trapAt))

\* One iteration of the loop over the inputs.
EncodeInput(st, input_, index, trapAt) ==
    IF input_.type \in FileTypes THEN st
    ELSE IF input_.type \notin InterfaceTypes
    THEN [st EXCEPT !.err = "ValueError"]
    ELSE LET json(s1) ==
                 IF s1.err # "" THEN s1
                 ELSE _set_input_json(s1, InputJson(input_, s1.ptrs), index, trapAt)
         IN json(SetInputArrays(st, InputArrays(input_), index, 0, trapAt))

\* The guest calls staging one input makes when none fails.
InputCalls(input_) ==
    IF input_.type \in InterfaceTypes \ FileTypes
    THEN Len(InputArrays(input_)) + 1 ELSE 0

AfterInput(r) == IF r.index + 1 < Len(r.inputs) THEN "inputs" ELSE "start"

StageInput(t) ==
    /\ run[t].pc = "inputs"
    /\ LET r == run[t]
           input_ == r.inputs[r.index + 1]
       IN \E trapAt \in 0..InputCalls(input_) :
          \E st \in {EncodeInput(Phase(r), input_, r.index, trapAt)} :
             IF st.err # ""
             THEN /\ run' = [run EXCEPT ![t] = Raise(r, st.err, st.log)]
                  /\ mem' = Release(st.mem, r.inst)
                  /\ guest' = ReleaseGuest(st.guest, r.inst)
             ELSE /\ run' = [run EXCEPT ![t] =
                               [r EXCEPT !.pc = AfterInput(r),
                                         !.index = r.index + 1,
                                         !.log = st.log]]
                  /\ mem' = st.mem
                  /\ guest' = st.guest
    /\ UNCHANGED <<module, self, nruns, active>>

-----------------------------------------------------------------------------
(* The guest's main program and its output tables *)

\* The buffer fields of a payload in sub-index order, and the keys of its
\* JSON descriptor.
BufferFields(type) ==
    CASE type \in {"TextStream", "BinaryStream"} -> <<"data">>
      [] type = "Image" -> <<"data", "direction">>
      [] type = "Mesh" -> <<"points", "cells", "pointData", "cellData">>
      [] type = "PolyData" ->
            <<"points", "vertices", "lines", "polygons", "triangleStrips",
              "pointData", "cellData">>
      [] OTHER -> <<>>

DescriptorKeys(type) ==
    CASE type \in {"TextStream", "BinaryStream"} -> <<"size", "data">>
      [] type = "Image" ->
            <<"imageType", "name", "origin", "spacing", "direction", "size", "data">>
      [] type = "Mesh" ->
            <<"meshType", "name", "numberOfPoints", "points", "numberOfCells",
              "cells", "cellBufferSize", "numberOfPointPixels", "pointData",
              "numberOfCellPixels", "cellData">>
      [] type = "PolyData" ->
            <<"polyDataType", "name", "numberOfPoints", "points",
              "verticesBufferSize", "vertices", "linesBufferSize", "lines",
              "polygonsBufferSize", "polygons", "triangleStripsBufferSize",
              "triangleStrips", "numberOfPointPixels", "pointData",
              "numberOfCellPixels", "cellData">>
      [] OTHER -> <<>>

IndexOf(seq, x) == CHOOSE i \in 1..Len(seq) : seq[i] = x

\* What the guest's program may compute for an output slot of a type: for
\* the streams the bytes, for the composite types the payload.
GuestStream(bytes) == [size |-> Len(bytes), data |-> Arr("uint8", [i \in 1..Len(bytes) |-> <<bytes[i]>>])]

GuestOutputs(type) ==
    CASE type = "TextStream" ->
            {GuestStream(Utf8Encode(<<104, 233>>)), GuestStream(<<255>>)}
      [] type = "BinaryStream" -> {GuestStream(<<7, 8>>)}
      [] type = "Image" ->
            {AnImage(ImageType, U8(<<1, 2>>)),
             AnImage(ImageType, U8(<<>>)),
             AnImage([ImageType EXCEPT !.componentType = "complex64"], U8(<<1, 2>>))}
      [] type = "Mesh" -> {AMesh(MeshType, g) : g \in MeshGates}
      [] type = "PolyData" -> {APolyData(PolyDataType, g) : g \in PolyDataGates}
      [] OTHER -> {[none |-> TRUE]}

\* The guest leaves one output in its memory: every non-empty buffer, then
\* the descriptor that names the buffers' addresses; and enters both in its
\* output table.  gm is [guest, mem].
Region(addr, size) == [addr |-> addr, size |-> size]

RECURSIVE GuestPutArrays(_, _, _, _)
GuestPutArrays(m, d, fields, k) ==
    IF k > Len(fields) THEN [mem |-> m, regions |-> <<>>]
    ELSE LET bytes == ToBytes(d[fields[k]])
             here == IF bytes = <<>> THEN Region(0, 0) ELSE Region(Len(m), Len(bytes))
             rest == GuestPutArrays(m \o Cells(bytes), d, fields, k + 1)
         IN [mem |-> rest.mem, regions |-> <<here>> \o rest.regions]

\* The buffer regions the guest enters in its output table; end is the size
\* of its memory.
GuestReported(regions, end) ==
    IF module.alloc = "oob"
    THEN [k \in 1..Len(regions) |->
            IF regions[k].size = 0 THEN regions[k] ELSE Region(end, regions[k].size)]
    ELSE regions

GuestPut(gm, type, d) ==
    IF type \notin InterfaceTypes \ FileTypes
    THEN [gm EXCEPT !.guest.out = Append(gm.guest.out,
                                         [json |-> Region(0, 0), arrays |-> <<>>])]
    ELSE
    LET fields == BufferFields(type)
        keys == DescriptorKeys(type)
        put == GuestPutArrays(gm.mem, d, fields, 1)
        json == JsonDumps([i \in 1..Len(keys) |->
                    <<keys[i],
                      IF keys[i] \in Range(fields)
                      THEN AddressUrl(put.regions[IndexOf(fields, keys[i])].addr)
                      ELSE d[keys[i]]>>])
    IN [guest |-> [gm.guest EXCEPT !.out =
                      Append(gm.guest.out,
                             [json |-> Region(Len(put.mem), Len(json)),
                              arrays |-> GuestReported(put.regions,
                                                       Len(put.mem) + Len(json))])],
        mem |-> put.mem \o json]

RECURSIVE GuestMain(_, _, _, _)
GuestMain(gm, outputs, produced, k) ==
    IF k > Len(outputs) THEN gm
    ELSE GuestMain(GuestPut(gm, outputs[k].type, produced[k]), outputs, produced, k + 1)

\* itk_wasm_output_json_address / _size and itk_wasm_output_array_address /
\* _size: the table's entry, 0 where the table has none.
GuestJsonRegion(g, slot) ==
    IF slot + 1 \in DOMAIN g.out THEN g.out[slot + 1].json ELSE Region(0, 0)

GuestArrayRegion(g, slot, sub) ==
    IF slot + 1 \in DOMAIN g.out /\ sub + 1 \in DOMAIN g.out[slot + 1].arrays
    THEN g.out[slot + 1].arrays[sub + 1] ELSE Region(0, 0)

\* An identity guest's table entry for an output slot: the regions its own
\* allocators handed out for the input of the same slot, as the calls it
\* received (log) tell.
GuestEcho(log, i, slot) ==
    LET arrays == SelectSeq(log, LAMBDA e : /\ e.fn = "itk_wasm_input_array_alloc"
                                            /\ e.inst = i /\ e.slot = slot)
        jsons == SelectSeq(log, LAMBDA e : /\ e.fn = "itk_wasm_input_json_alloc"
                                           /\ e.inst = i /\ e.slot = slot)
    IN [json |-> IF jsons = <<>> THEN Region(0, 0)
                 ELSE Region(jsons[1].ret, jsons[1].arg),
        arrays |-> [k \in 1..Len(arrays) |-> Region(arrays[k].ret, arrays[k].arg)]]

-----------------------------------------------------------------------------
(* delayed_start *)

AfterStartIgnoresCode(outputs, return_code) ==
    IF Len(outputs) > 0 THEN "outputs" ELSE "exit"

\* if len(outputs) and return_code == 0
AfterStart(outputs, return_code) ==
    IF Len(outputs) > 0 /\ return_code = 0 THEN "outputs" ELSE "exit"

DelayedStart(t) ==
    /\ run[t].pc = "start"
    /\ LET r == run[t]
           i == r.inst
           call(ret) == Append(r.log, Event("itk_wasm_delayed_start", i, -1, -1, -1, ret))
       IN IF "itk_wasm_delayed_start" \notin module.exports
          THEN /\ run' = [run EXCEPT ![t] = Raise(r, "LookupError", r.log)]
               /\ mem' = Release(mem, i)
               /\ guest' = ReleaseGuest(guest, i)
          ELSE \/ \* the guest traps
                  /\ run' = [run EXCEPT ![t] = Raise(r, "RuntimeError", call(-1))]
                  /\ mem' = Release(mem, i)
                  /\ guest' = ReleaseGuest(guest, i)
               \/ \E rc \in ReturnCodes \ {0} :
                  /\ run' = [run EXCEPT ![t] =
                               [r EXCEPT !.pc = AfterStart(r.outputs, rc),
                                         !.index = 0,
                                         !.return_code = rc,
                                         !.log = call(rc)]]
                  /\ UNCHANGED <<mem, guest>>
               \/ \E produced \in [1..Len(r.outputs) ->
                        UNION {GuestOutputs(ty) : ty \in InterfaceTypes \cup {"JsonObject"}}] :
                  /\ \A k \in 1..Len(r.outputs) :
                        produced[k] \in GuestOutputs(r.outputs[k].type)
                  /\ LET gm == GuestMain([guest |-> guest[i], mem |-> mem[i]],
                                         r.outputs, produced, 1)
                     IN /\ mem' = [mem EXCEPT ![i] = gm.mem]
                        /\ guest' = [guest EXCEPT ![i] = gm.guest]
                  /\ run' = [run EXCEPT ![t] =
                               [r EXCEPT !.pc = AfterStart(r.outputs, 0),
                                         !.index = 0,
                                         !.return_code = 0,
                                         !.produced = produced,
                                         !.log = call(0)]]
               \/ \* an identity guest: every output is the input of its slot,
                  \* which its allocator kept in a region of its own
                  /\ module.alloc = "bump"
                  /\ Len(r.outputs) > 0
                  /\ Len(r.outputs) <= Len(r.inputs)
                  /\ \A k \in 1..Len(r.outputs) : r.outputs[k].type = r.inputs[k].type
                  /\ guest' = [guest EXCEPT ![i].out =
                                  [k \in 1..Len(r.outputs) |-> GuestEcho(r.log, i, k - 1)]]
                  /\ UNCHANGED mem
                  /\ run' = [run EXCEPT ![t] =
                               [r EXCEPT !.pc = AfterStart(r.outputs, 0),
                                         !.index = 0,
                                         !.return_code = 0,
                                         !.produced = [k \in 1..Len(r.outputs) |->
                                                          r.inputs[k].data],
                                         !.identity = TRUE,
                                         !.log = call(0)]]
    /\ UNCHANGED <<module, self, nruns, active>>

-----------------------------------------------------------------------------
(* Decoding the outputs *)

DecodePhase(r) == [mem |-> mem, guest |-> guest, log |-> r.log, err |-> "",
                   n |-> 0, ret |-> 0, val |-> <<>>, set |-> {}, views |-> {}]

\* One call of an output accessor through the handle cached on self; the
\* region is what the guest's table holds, part is the half of it asked for.
Accessor(st, fn, region, part, h, slot, sub, trapAt) ==
    IF st.err # "" THEN st
    ELSE IF st.n + 1 = trapAt
    THEN [st EXCEPT !.err = "RuntimeError", !.n = st.n + 1,
                    !.log = Append(st.log, Event(fn, h, slot, sub, -1, -1))]
    ELSE [st EXCEPT !.n = st.n + 1, !.ret = region[part],
                    !.log = Append(st.log, Event(fn, h, slot, sub, -1, region[part]))]

\* bytes(memoryview(self.memory.buffer)[ptr:ptr+size]): the cells read, as
\* bytes.
CellByte(c) == IF IsByteCell(c) THEN c[2] ELSE -1

ReadMemory(st, ptr, size, slot, sub) ==
    IF st.err # "" THEN st
    ELSE LET hm == self["memory"]
             cells == Slice(st.mem[hm], ptr, size)
         IN [st EXCEPT !.ret = cells,
                       !.log = Append(st.log, Event("mem_read", hm, slot, sub, size, ptr))]

RetainedWithoutCopy(view) == {view}

\* What a value built from a memoryview slice keeps of the view: nothing,
\* since bytearray(view), bytes(view) and np.frombuffer(view).copy() each
\* own a fresh buffer.
Retained(view) == {}

\* data_ptr = self.output_array_address(0, index, sub)
\* data_size = self.output_array_size(0, index, sub)
\* memoryview(self.memory.buffer)[data_ptr:data_ptr+data_size]
ReadOutputArray(st, index, sub, trapAt) ==
    LET ha == self["itk_wasm_output_array_address"]
        hs == self["itk_wasm_output_array_size"]
        bytes(s3, ptr, size) ==
            IF s3.err # "" THEN s3
            ELSE [s3 EXCEPT !.ret = [i \in 1..Len(s3.ret) |-> CellByte(s3.ret[i])],
                            !.views = s3.views \cup
                                      Retained([inst |-> self["memory"], sub |-> sub,
                                                addr |-> ptr, size |-> size])]
        read(s1, s2) == bytes(ReadMemory(s2, s1.ret, s2.ret, index, sub),
                              s1.ret, s2.ret)
        size(s1) == read(s1, Accessor(s1, "itk_wasm_output_array_size",
                                      GuestArrayRegion(st.guest[hs], index, sub),
                                      "size", hs, index, sub, trapAt))
    IN size(Accessor(st, "itk_wasm_output_array_address",
                     GuestArrayRegion(st.guest[ha], index, sub), "addr",
                     ha, index, sub, trapAt))

\* Pipeline._get_output_json
_get_output_json(st, output_index, trapAt) ==
    LET ha == self["itk_wasm_output_json_address"]
        hs == self["itk_wasm_output_json_size"]
        loads(s3) ==
            IF s3.err # "" THEN s3
            ELSE IF ~IsJson(s3.ret) THEN [s3 EXCEPT !.err = "JSONDecodeError"]
            ELSE [s3 EXCEPT !.ret = JsonLoads(s3.ret)]
        read(s1, s2) == loads(ReadMemory(s2, s1.ret, s2.ret, output_index, -1))
        size(s1) == read(s1, Accessor(s1, "itk_wasm_output_json_size",
                                      GuestJsonRegion(st.guest[hs], output_index),
                                      "size", hs, output_index, -1, trapAt))
    IN size(Accessor(st, "itk_wasm_output_json_address",
                     GuestJsonRegion(st.guest[ha], output_index), "addr",
                     ha, output_index, -1, trapAt))

\* obj.field = value on the payload built from the descriptor.
SetField(obj, field, value) ==
    [k \in DOMAIN obj \cup {field} |-> IF k = field THEN value ELSE obj[k]]

\* One sub-buffer of a composite output: where its count gates it and is
\* positive (or nothing gates it) the accessors are called and the bytes read
\* are converted and assigned to field; otherwise the empty array of the
\* component type is assigned to emptyField.
Buffer(sub, gated, count, ct, field, emptyField) ==
    [sub |-> sub, gated |-> gated, count |-> count, ct |-> ct, field |-> field,
     emptyField |-> emptyField]

DecodeBufferGateAtZero(st, b, index, trapAt) ==
    IF st.err # "" THEN st
    ELSE LET assign(s1, field, a) ==
                 IF s1.err # "" THEN s1
                 ELSE IF ~a.ok THEN [s1 EXCEPT !.err = "ValueError"]
                 ELSE [s1 EXCEPT !.val = SetField(s1.val, field, a.value),
                                 !.set = s1.set \cup {field}]
             convert(s1) ==
                 assign(s1, b.field, _memoryview_to_numpy_array(b.ct, s1.ret))
         IN IF ~b.gated \/ b.count >= 0
            THEN convert(ReadOutputArray(st, index, b.sub, trapAt))
            ELSE assign(st, b.emptyField, _memoryview_to_numpy_array(b.ct, <<>>))

DecodeBuffer(st, b, index, trapAt) ==
    IF st.err # "" THEN st
    ELSE LET assign(s1, field, a) ==
                 IF s1.err # "" THEN s1
                 ELSE IF ~a.ok THEN [s1 EXCEPT !.err = "ValueError"]
                 ELSE [s1 EXCEPT !.val = SetField(s1.val, field, a.value),
                                 !.set = s1.set \cup {field}]
             convert(s1) ==
                 assign(s1, b.field, _memoryview_to_numpy_array(b.ct, s1.ret))
         IN IF ~b.gated \/ b.count > 0
            THEN convert(ReadOutputArray(st, index, b.sub, trapAt))
            ELSE assign(st, b.emptyField, _memoryview_to_numpy_array(b.ct, <<>>))

RECURSIVE DecodeBuffers(_, _, _, _, _)
DecodeBuffers(st, bs, index, k, trapAt) ==
    IF k > Len(bs) THEN st
    ELSE DecodeBuffers(DecodeBuffer(st, bs[k], index, trapAt), bs, index, k + 1, trapAt)

\* The sub-buffers run reads for an output of a composite type, from the
\* payload d built from the slot's descriptor.
ImageBuffers(d) ==
    <<Buffer(0, FALSE, 0, d.imageType.componentType, "data", "data"),
      Buffer(1, FALSE, 0, "float64", "direction", "direction")>>

MeshBuffers(d) ==
    <<Buffer(0, TRUE, d.numberOfPoints, d.meshType.pointComponentType,
             "points", "points"),
      Buffer(1, TRUE, d.numberOfCells, d.meshType.cellComponentType,
             "cells", "cells"),
      Buffer(2, TRUE, d.numberOfPointPixels, d.meshType.pointPixelComponentType,
             "pointData", "pointData"),
      Buffer(3, TRUE, d.numberOfCellPixels, d.meshType.cellPixelComponentType,
             "cellData", "cellData")>>

PolyDataBuffers(d) ==
    <<Buffer(0, TRUE, d.numberOfPoints, "float32", "points", "points"),
      Buffer(1, TRUE, d.verticesBufferSize, "uint32", "vertices", "vertices"),
      Buffer(2, TRUE, d.linesBufferSize, "uint32", "lines", "lines"),
      Buffer(3, TRUE, d.polygonsBufferSize, "uint32", "polygons", "polygons"),
      Buffer(4, TRUE, d.triangleStripsBufferSize, "uint32",
             "triangleStrips", "triangleStrips"),
      Buffer(5, TRUE, d.numberOfPointPixels,
             d.polyDataType.pointPixelComponentType, "pointData", "triangleStrips"),
      Buffer(6, TRUE, d.numberOfCellPixels,
             d.polyDataType.cellPixelComponentType, "cellData", "triangleStrips")>>

OutputBuffers(type, d) ==
    CASE type = "Image" -> ImageBuffers(d)
      [] type = "Mesh" -> MeshBuffers(d)
      [] type = "PolyData" -> PolyDataBuffers(d)

\* direction_array.shape = (dimension, dimension)
Reshape(st) ==
    IF st.err # "" THEN st
    ELSE LET dimension == st.val.imageType.dimension IN
         IF Len(st.val.direction.elems) # dimension * dimension
         THEN [st EXCEPT !.err = "ValueError"]
         ELSE [st EXCEPT !.val =
                  SetField(st.val, "direction",
                           [dtype |-> st.val.direction.dtype,
                            elems |-> st.val.direction.elems,
                            shape |-> <<dimension, dimension>>])]

FileOutputWithoutPath(output) == PipelineOutput(output.type, [path |-> <<>>])

\* PipelineOutput(InterfaceTypes.TextFile, TextFile(output.data.path)), and
\* the same for BinaryFile.
FileOutput(output) == PipelineOutput(output.type, [path |-> output.data.path])

\* One iteration of the loop over the outputs: st.val is output_data.
DecodeOutputSlot(st, output, index, trapAt) ==
    CASE output.type = "TextStream" ->
            LET decode(s1, text) ==
                    IF s1.err # "" THEN s1
                    ELSE IF ~text.ok THEN [s1 EXCEPT !.err = "UnicodeDecodeError"]
                    ELSE [s1 EXCEPT !.val =
                             PipelineOutput("TextStream", [data |-> text.text])]
                read(s1) == decode(s1, Utf8Decode(s1.ret))
            IN read(ReadOutputArray(st, index, 0, trapAt))
      [] output.type = "BinaryStream" ->
            LET read(s1) ==
                    IF s1.err # "" THEN s1
                    ELSE [s1 EXCEPT !.val =
                             PipelineOutput("BinaryStream", [data |-> s1.ret])]
            IN read(ReadOutputArray(st, index, 0, trapAt))
      [] output.type \in FileTypes ->
            [st EXCEPT !.val = FileOutput(output)]
      [] output.type \in {"Image", "Mesh", "PolyData"} ->
            LET wrap(s3) ==
                    IF s3.err # "" THEN s3
                    ELSE [s3 EXCEPT !.val = PipelineOutput(output.type, s3.val)]
                shape(s2) == wrap(IF output.type = "Image" THEN Reshape(s2) ELSE s2)
                buffers(s1) ==
                    IF s1.err # "" THEN s1
                    ELSE shape(DecodeBuffers([s1 EXCEPT !.val = s1.ret],
                                             OutputBuffers(output.type, s1.ret),
                                             index, 1, trapAt))
            IN buffers(_get_output_json(st, index, trapAt))
      [] OTHER -> [st EXCEPT !.val = [none |-> TRUE]]

\* More guest calls than decoding any one output makes.
OutputCalls(output) ==
    CASE output.type \in {"TextStream", "BinaryStream"} -> 2
      [] output.type = "Image" -> 6
      [] output.type = "Mesh" -> 10
      [] output.type = "PolyData" -> 16
      [] OTHER -> 0

AfterOutput(r) == IF r.index + 1 < Len(r.outputs) THEN "outputs" ELSE "exit"

\* What an output value reads through a view it retained, once the memory
\* under the view is m.
RefreshValue(out, v, m) ==
    LET cells == Slice(m, v.addr, v.size)
        bytes == [k \in 1..Len(cells) |-> CellByte(cells[k])]
    IN CASE out.type = "BinaryStream" -> PipelineOutput(out.type, [data |-> bytes])
         [] out.type \in {"Image", "Mesh", "PolyData"} ->
               LET b == OutputBuffers(out.type, out.data)[v.sub + 1]
                   a == _memoryview_to_numpy_array(b.ct, bytes).value
               IN PipelineOutput(out.type,
                      SetField(out.data, b.field,
                               IF out.type = "Image" /\ v.sub = 1
                               THEN [dtype |-> a.dtype, elems |-> a.elems,
                                     shape |-> out.data.direction.shape]
                               ELSE a))
         [] OTHER -> out

RECURSIVE RefreshSlot(_, _, _)
RefreshSlot(out, vs, memf) ==
    IF vs = {} THEN out
    ELSE LET v == CHOOSE x \in vs : TRUE
         IN RefreshSlot(RefreshValue(out, v, memf[v.inst]), vs \ {v}, memf)

\* populated_outputs as the host sees it after a guest call left the
\* memories memf.
Refresh(outs, views, memf) ==
    [s \in 1..Len(outs) |-> RefreshSlot(outs[s], views[s], memf)]

DecodeOutput(t) ==
    /\ run[t].pc = "outputs"
    /\ LET r == run[t]
           output == r.outputs[r.index + 1]
       IN \E trapAt \in 0..OutputCalls(output) :
          \E st \in {DecodeOutputSlot(DecodePhase(r), output, r.index, trapAt)} :
             IF st.err # ""
             THEN /\ run' = [run EXCEPT ![t] = Raise(r, st.err, st.log)]
                  /\ mem' = Release(mem, r.inst)
                  /\ guest' = ReleaseGuest(guest, r.inst)
             ELSE /\ run' = [run EXCEPT ![t] =
                               [r EXCEPT !.pc = AfterOutput(r),
                                         !.index = r.index + 1,
                                         !.populated_outputs =
                                             Append(Refresh(r.populated_outputs,
                                                            r.views, st.mem),
                                                    st.val),
                                         !.assigned = Append(r.assigned, st.set),
                                         !.views = Append(r.views, st.views),
                                         !.log = st.log]]
                  /\ UNCHANGED <<mem, guest>>
    /\ UNCHANGED <<module, self, nruns, active>>

-----------------------------------------------------------------------------
(* delayed_exit and the return *)

\* itk_wasm_delayed_exit runs the guest's exit handlers: they leave none of
\* the bytes the guest had in its memory.
GuestExit(m) == [k \in 1..Len(m) |-> ByteCell(0)]

DelayedExit(t) ==
    /\ run[t].pc = "exit"
    /\ LET r == run[t]
           i == r.inst
           call == Append(r.log, Event("itk_wasm_delayed_exit", i, -1, -1,
                                       r.return_code, -1))
       IN /\ IF "itk_wasm_delayed_exit" \notin module.exports
             THEN run' = [run EXCEPT ![t] = Raise(r, "LookupError", r.log)]
             ELSE \/ run' = [run EXCEPT ![t] =
                               [r EXCEPT !.pc = "returned", !.log = call,
                                         !.populated_outputs =
                                             Refresh(r.populated_outputs, r.views,
                                                     [mem EXCEPT ![i] = GuestExit(mem[i])])]]
                  \/ \* the guest traps
                     run' = [run EXCEPT ![t] = Raise(r, "RuntimeError", call)]
          /\ mem' = Release(mem, i)
          /\ guest' = ReleaseGuest(guest, i)
    /\ UNCHANGED <<module, self, nruns, active>>

\* The caller is done with what the call returned or raised.
Done(t) ==
    /\ run[t].pc \in {"returned", "raised"}
    /\ run' = [run EXCEPT ![t] = NoRun]
    /\ UNCHANGED <<module, self, mem, guest, nruns, active>>

-----------------------------------------------------------------------------
(* Reading a run's call log *)

Log(t) == run[t].log
At(t, fns) == {k \in 1..Len(Log(t)) : Log(t)[k].fn \in fns}
Ended(t) == run[t].pc \in {"returned", "raised"}

InputAllocators == {"itk_wasm_input_array_alloc", "itk_wasm_input_json_alloc"}
OutputAccessors ==
    {"itk_wasm_output_array_address", "itk_wasm_output_array_size",
     "itk_wasm_output_json_address", "itk_wasm_output_json_size"}
GuestFunctions ==
    InputAllocators \cup OutputAccessors
    \cup {"_initialize", "itk_wasm_delayed_start", "itk_wasm_delayed_exit"}

\* delayed_start was invoked and returned a code.
StartReturned(t) ==
    \E k \in At(t, {"itk_wasm_delayed_start"}) : Log(t)[k].ret >= 0

-----------------------------------------------------------------------------
(* C1 *)

\* C1: in every run of a module with all the required exports in which
\* itk_wasm_delayed_start was invoked and returned, itk_wasm_delayed_exit is
\* invoked exactly once, afterwards, whichever way the run ends: with return
\* code zero, with a non-zero return code, or with an error raised while an
\* output slot is decoded.
C1_DelayedExitOncePerStart ==
    \A t \in Threads :
        (Ended(t) /\ module.exports = RequiredExports /\ StartReturned(t))
        => /\ Cardinality(At(t, {"itk_wasm_delayed_exit"})) = 1
           /\ \A s \in At(t, {"itk_wasm_delayed_start"}) :
              \A e \in At(t, {"itk_wasm_delayed_exit"}) : s < e

-----------------------------------------------------------------------------
(* C2 *)

\* C2: when itk_wasm_delayed_start has returned a non-zero code c, the run
\* calls no output accessor and reads no output from guest memory, it
\* populates no output, the only call it still makes is
\* itk_wasm_delayed_exit(c) with that same code (made whenever the module
\* exports it), and what run returns is the empty tuple, whatever outputs
\* were declared.
C2_NonZeroReturnCode ==
    \A t \in Threads :
        LET r == run[t]
            c == r.return_code
        IN (c # 0) =>
           /\ At(t, OutputAccessors \cup {"mem_read"}) = {}
           /\ r.populated_outputs = <<>>
           /\ \A e \in At(t, {"itk_wasm_delayed_exit"}) : Log(t)[e].arg = c
           /\ r.pc \in {"exit", "returned", "raised"}
           /\ (Ended(t) /\ "itk_wasm_delayed_exit" \in module.exports)
              => /\ Log(t)[Len(Log(t))].fn = "itk_wasm_delayed_exit"
                 /\ Cardinality(At(t, {"itk_wasm_delayed_exit"})) = 1
           /\ (r.pc = "raised")
              => \/ "itk_wasm_delayed_exit" \notin module.exports
                 \/ r.err = "RuntimeError"

C2_Witness ==
    \E t \in Threads :
        /\ run[t].pc = "returned"
        /\ run[t].return_code = 3
        /\ Len(run[t].outputs) = 2
        /\ run[t].outputs[1].type = "Mesh"
        /\ run[t].populated_outputs = <<>>

-----------------------------------------------------------------------------
(* C3 *)

\* C3: when a run aborts with an error after the module was instantiated and
\* a guest function was entered (a trap in _initialize, a failure staging an
\* input, a trap in delayed_start, a failure decoding an output),
\* itk_wasm_delayed_exit has been invoked with a non-zero code before the
\* error reaches the caller.
C3_ExitOnAbort ==
    \A t \in Threads :
        (run[t].pc = "raised" /\ Log(t) # <<>>)
        => \E e \in At(t, {"itk_wasm_delayed_exit"}) : Log(t)[e].arg # 0

-----------------------------------------------------------------------------
(* C4 *)

\* C4: when a required export is absent from the module, run fails with the
\* missing-export error before any guest function has been called.
C4_MissingExportBeforeGuestCall ==
    \A t \in Threads :
        (run[t].pc = "raised" /\ run[t].err = "LookupError")
        => At(t, GuestFunctions) = {}

-----------------------------------------------------------------------------
(* C5 *)

\* C5: within one run the guest calls follow the lifecycle order:
\* _initialize is called once and before everything else; every input
\* allocator call precedes the single itk_wasm_delayed_start call; every
\* output accessor call and every read of guest memory comes after
\* delayed_start has returned and before itk_wasm_delayed_exit; nothing
\* follows delayed_exit.
C5_LifecycleOrder ==
    \A t \in Threads :
        LET log == Log(t)
            starts == At(t, {"itk_wasm_delayed_start"})
            exits == At(t, {"itk_wasm_delayed_exit"})
        IN /\ Cardinality(At(t, {"_initialize"})) <= 1
           /\ log # <<>> => log[1].fn = "_initialize"
           /\ run[t].pc \in {"inputs", "start", "outputs", "exit", "returned"}
              => Cardinality(At(t, {"_initialize"})) = 1
           /\ Cardinality(starts) <= 1
           /\ Cardinality(exits) <= 1
           /\ run[t].pc \in {"outputs", "exit", "returned"} => Cardinality(starts) = 1
           /\ run[t].pc = "returned" => Cardinality(exits) = 1
           /\ \A a \in At(t, InputAllocators \cup {"mem_write"}) :
              \A s \in starts : a < s
           /\ \A o \in At(t, OutputAccessors \cup {"mem_read"}) :
                 /\ \E s \in starts : s < o /\ log[s].ret = 0
                 /\ \A e \in exits : o < e
           /\ \A e \in exits : e = Len(log)

C5_Witness ==
    \E t \in Threads :
        /\ run[t].pc = "returned"
        /\ At(t, {"itk_wasm_input_array_alloc"}) # {}
        /\ At(t, {"itk_wasm_input_json_alloc"}) # {}
        /\ At(t, {"itk_wasm_output_array_address"}) # {}
        /\ At(t, {"itk_wasm_output_json_size"}) # {}
        /\ At(t, {"mem_read"}) # {}

-----------------------------------------------------------------------------
(* Table T1: the sub-buffers of a payload and the counts that gate them *)

\* The caller's sub-buffer of an input at a sub-index, as bytes.
ExpectedBuffer(input_, sub) ==
    CASE input_.type = "TextStream" -> Utf8Encode(input_.data.data)
      [] input_.type = "BinaryStream" -> input_.data.data
      [] OTHER -> ToBytes(input_.data[BufferFields(input_.type)[sub + 1]])

GatingCounts(type, d) ==
    CASE type = "Mesh" ->
            <<d.numberOfPoints, d.numberOfCells, d.numberOfPointPixels,
              d.numberOfCellPixels>>
      [] type = "PolyData" ->
            <<d.numberOfPoints, d.verticesBufferSize, d.linesBufferSize,
              d.polygonsBufferSize, d.triangleStripsBufferSize,
              d.numberOfPointPixels, d.numberOfCellPixels>>

ArrayAllocs(t, slot) ==
    {a \in At(t, {"itk_wasm_input_array_alloc"}) : Log(t)[a].slot = slot}
JsonAllocs(t, slot) ==
    {a \in At(t, {"itk_wasm_input_json_alloc"}) : Log(t)[a].slot = slot}

-----------------------------------------------------------------------------
(* C6 *)

\* C6: input staging is ordered.  The allocator calls carry the list
\* position of their input as slot, and the calls of one position all come
\* before those of the next; within an input the input_array_alloc calls
\* have the sub-indices 0, 1, 2, ... in that order; the slot's
\* input_json_alloc call comes after all its input_array_alloc calls; and
\* once an input is staged its slot has had the calls of its type (stream 0;
\* Image 0,1; Mesh 0..3; PolyData 0..6; each followed by one descriptor; a
\* file none).
C6_StagingOrder ==
    \A t \in Threads :
        LET log == Log(t)
            r == run[t]
            allocs == At(t, InputAllocators)
            staged == IF r.pc = "inputs" THEN r.index
                      ELSE IF r.pc \in {"start", "outputs", "exit", "returned"}
                      THEN Len(r.inputs) ELSE 0
        IN /\ \A a \in allocs : log[a].slot \in 0..(Len(r.inputs) - 1)
           /\ r.pc = "inputs" => \A a \in allocs : log[a].slot < r.index
           /\ \A a, b \in allocs : a < b => log[a].slot <= log[b].slot
           /\ \A a \in At(t, {"itk_wasm_input_array_alloc"}) :
                 log[a].sub = Cardinality({b \in ArrayAllocs(t, log[a].slot) : b < a})
           /\ \A j \in At(t, {"itk_wasm_input_json_alloc"}) :
                 /\ \A a \in ArrayAllocs(t, log[j].slot) : a < j
                 /\ JsonAllocs(t, log[j].slot) = {j}
           /\ \A i \in 1..staged :
                 LET n == IF r.inputs[i].type \in FileTypes THEN 0
                          ELSE Len(BufferFields(r.inputs[i].type))
                 IN /\ {log[a].sub : a \in ArrayAllocs(t, i - 1)} = 0..(n - 1)
                    /\ Cardinality(JsonAllocs(t, i - 1)) =
                       IF r.inputs[i].type \in FileTypes THEN 0 ELSE 1

C6_Witness ==
    \E t \in Threads :
        /\ run[t].pc = "start"
        /\ Len(run[t].inputs) = 2
        /\ run[t].inputs[1].type = "Image"
        /\ run[t].inputs[2].type = "PolyData"
        /\ Cardinality(ArrayAllocs(t, 0)) = 2
        /\ Cardinality(ArrayAllocs(t, 1)) = 7

-----------------------------------------------------------------------------
(* C7 *)

\* The descriptor a run has just written: the last entry of its log is the
\* write of a JSON text, and nothing has touched memory since.
DescriptorJustWritten(t) ==
    /\ run[t].pc \in {"inputs", "start"}
    /\ Log(t) # <<>>
    /\ Log(t)[Len(Log(t))].fn = "mem_write"
    /\ Log(t)[Len(Log(t))].sub = -1

\* C7: in the JSON descriptor written for a stream, Image, Mesh or PolyData
\* input, every buffer field is the string
\* data:application/vnd.itk.address,0:N with N the pointer returned by the
\* one input_array_alloc call this run made, on its own instance, for the
\* same slot and the field's sub-index.
C7_DescriptorPointers ==
    \A t \in Threads :
        DescriptorJustWritten(t) =>
        LET log == Log(t)
            w == log[Len(log)]
            cells == Slice(mem[w.inst], w.ret, w.arg)
            fields == BufferFields(run[t].inputs[w.slot + 1].type)
        IN /\ IsJson(cells)
           /\ fields # <<>>
           /\ \A k \in 1..Len(fields) :
                 LET made == {a \in ArrayAllocs(t, w.slot) : log[a].sub = k - 1}
                 IN /\ Cardinality(made) = 1
                    /\ \A a \in made :
                          /\ log[a].inst = run[t].inst
                          /\ JsonLoads(cells)[fields[k]] =
                                "data:application/vnd.itk.address,0:"
                                    \o ToString(log[a].ret)

C7_Witness ==
    \E t \in Threads :
        /\ DescriptorJustWritten(t)
        /\ module.alloc = "bump"
        /\ run[t].inputs[Log(t)[Len(Log(t))].slot + 1].type = "PolyData"
        /\ run[t].inputs[Log(t)[Len(Log(t))].slot + 1].data.numberOfPoints = 1
        /\ Log(t)[Len(Log(t))].slot = 1

-----------------------------------------------------------------------------
(* C8 *)

\* The regions the guest's allocators have returned to this run are in
\* bounds and pairwise disjoint.
RegionsDisjointInBounds(t) ==
    LET log == Log(t)
        allocs == At(t, InputAllocators)
    IN /\ \A a \in allocs :
            /\ log[a].ret >= 0
            /\ log[a].ret + log[a].arg <= Len(mem[run[t].inst])
       /\ \A a, b \in allocs :
            a < b => \/ log[a].ret + log[a].arg <= log[b].ret
                     \/ log[b].ret + log[b].arg <= log[a].ret

\* C8: provided the allocators returned pairwise disjoint in-bounds regions,
\* then while the inputs are staged and at the moment delayed_start is
\* invoked, the region of every allocated input sub-buffer holds the bytes of
\* the caller's sub-buffer of that input, and the region of every
\* input_json_alloc call holds the JSON descriptor of its input; staging a
\* later input alters no earlier region.
C8_StagedBytes ==
    \A t \in Threads :
        (run[t].pc \in {"inputs", "start"} /\ RegionsDisjointInBounds(t)) =>
        LET log == Log(t)
            m == mem[run[t].inst]
        IN /\ \A a \in At(t, {"itk_wasm_input_array_alloc"}) :
                 LET expected == ExpectedBuffer(run[t].inputs[log[a].slot + 1],
                                                log[a].sub)
                 IN /\ log[a].arg = Len(expected)
                    /\ Slice(m, log[a].ret, log[a].arg) = Cells(expected)
           /\ \A j \in At(t, {"itk_wasm_input_json_alloc"}) :
                 LET input_ == run[t].inputs[log[j].slot + 1]
                     ptr(k) == log[CHOOSE a \in ArrayAllocs(t, log[j].slot) :
                                       log[a].sub = k - 1].ret
                     ptrs == [k \in 1..Len(BufferFields(input_.type)) |-> ptr(k)]
                 IN Slice(m, log[j].ret, log[j].arg) =
                        JsonDumps(InputJson(input_, ptrs))

C8_Witness ==
    \E t \in Threads :
        /\ run[t].pc = "start"
        /\ RegionsDisjointInBounds(t)
        /\ Len(run[t].inputs) = 2
        /\ run[t].inputs[1].type = "PolyData"
        /\ run[t].inputs[1].data.numberOfPoints = 1
        /\ run[t].inputs[2].type = "Image"
        /\ Cardinality(At(t, {"mem_write"})) = 11

-----------------------------------------------------------------------------
(* C9 *)

\* C9: for a Mesh or PolyData input, a sub-buffer whose gating count is zero
\* causes no call of input_array_alloc for its (slot, sub-index).
C9_NoAllocForEmpty ==
    \A t \in Threads :
        \A a \in At(t, {"itk_wasm_input_array_alloc"}) :
            LET input_ == run[t].inputs[Log(t)[a].slot + 1]
            IN input_.type \in {"Mesh", "PolyData"}
               => GatingCounts(input_.type, input_.data)[Log(t)[a].sub + 1] # 0

-----------------------------------------------------------------------------
(* C10 *)

OutputArrayCalls(t, fn, slot, sub) ==
    {e \in At(t, {fn}) : Log(t)[e].slot = slot /\ Log(t)[e].sub = sub}

\* C10: decoding a Mesh or PolyData output, the host never calls
\* output_array_address or output_array_size for a sub-buffer whose gating
\* count in the slot's descriptor is zero, and once the slot is decoded it
\* has called each of the two once, address first, for every sub-buffer
\* whose count is positive, with the slot and the sub-index of Table T1; it
\* calls them for no other sub-index.
C10_OutputGating ==
    \A t \in Threads :
        \A s \in 1..Len(run[t].produced) :
            run[t].outputs[s].type \in {"Mesh", "PolyData"} =>
            LET counts == GatingCounts(run[t].outputs[s].type, run[t].produced[s])
                addr(k) == OutputArrayCalls(t, "itk_wasm_output_array_address", s - 1, k - 1)
                size(k) == OutputArrayCalls(t, "itk_wasm_output_array_size", s - 1, k - 1)
            IN /\ \A k \in 1..Len(counts) :
                    /\ counts[k] = 0 => addr(k) = {} /\ size(k) = {}
                    /\ (counts[k] > 0 /\ s <= Len(run[t].populated_outputs))
                       => /\ Cardinality(addr(k)) = 1
                          /\ Cardinality(size(k)) = 1
                          /\ \A x \in addr(k) : \A y \in size(k) : x < y
               /\ \A e \in At(t, {"itk_wasm_output_array_address",
                                  "itk_wasm_output_array_size"}) :
                    Log(t)[e].slot = s - 1 => Log(t)[e].sub \in 0..(Len(counts) - 1)

C10_Witness ==
    \E t \in Threads :
        /\ run[t].pc = "returned"
        /\ Len(run[t].populated_outputs) = 2
        /\ run[t].outputs[2].type = "PolyData"
        /\ run[t].produced[2].numberOfPoints = 0
        /\ run[t].produced[2].triangleStripsBufferSize = 1
        /\ run[t].outputs[1].type = "Mesh"
        /\ run[t].produced[1].numberOfPoints = 1
        /\ run[t].produced[1].numberOfCells = 0

-----------------------------------------------------------------------------
(* C11 *)

\* C11: decoding an Image output whose pixel data has size 0, the host makes
\* no call of output_array_address for sub-index 0 of the slot, and the
\* image's data is the empty array of the descriptor's componentType.
C11_NoAccessorForEmptyImage ==
    \A t \in Threads :
        \A s \in 1..Len(run[t].produced) :
            (run[t].outputs[s].type = "Image" /\ Len(run[t].produced[s].data.elems) = 0)
            => /\ OutputArrayCalls(t, "itk_wasm_output_array_address", s - 1, 0) = {}
               /\ s <= Len(run[t].populated_outputs)
                  => /\ run[t].populated_outputs[s].data.data.dtype =
                            run[t].produced[s].imageType.componentType
                     /\ Len(run[t].populated_outputs[s].data.data.elems) = 0

-----------------------------------------------------------------------------
(* C12 *)

\* The typed array np.frombuffer gives for the bytes of the caller's array.
Decoded(arr) == _memoryview_to_numpy_array(arr.dtype, ToBytes(arr)).value

\* An attribute of a populated output holds the typed array arr: run
\* assigned an array to it, and the array is arr.
HoldsArray(t, s, field, arr) ==
    /\ field \in run[t].assigned[s]
    /\ run[t].populated_outputs[s].data[field] = arr

\* The array the round trip of an input's buffer field is to give.
ExpectedArray(type, d, field) ==
    IF type = "Image" /\ field = "direction"
    THEN [dtype |-> d.direction.dtype, elems |-> Decoded(d.direction).elems,
          shape |-> <<d.imageType.dimension, d.imageType.dimension>>]
    ELSE Decoded(d[field])

\* The output of a slot is the input of the slot: the same kind, every
\* descriptor field equal, every buffer field the same bytes.
RoundTrip(t, s) ==
    LET input_ == run[t].inputs[s]
        output == run[t].populated_outputs[s]
    IN
    /\ output.type = input_.type
    /\ CASE input_.type \in {"TextStream", "BinaryStream"} ->
                output.data.data = input_.data.data
         [] OTHER ->
                /\ \A key \in Range(DescriptorKeys(input_.type))
                              \ Range(BufferFields(input_.type)) :
                      output.data[key] = input_.data[key]
                /\ \A field \in Range(BufferFields(input_.type)) :
                      HoldsArray(t, s, field,
                                 ExpectedArray(input_.type, input_.data, field))

\* C12: with an identity guest (the accessors of output slot i answer with
\* the regions the host staged for input i, delayed_start returns 0) whose
\* allocators returned disjoint in-bounds regions, every output that run
\* populates equals the input of its slot: the kind, every descriptor field,
\* and every buffer field byte for byte, zero counts included.
C12_RoundTrip ==
    \A t \in Threads :
        (/\ run[t].identity
         /\ run[t].pc \in {"outputs", "exit"}
         /\ RegionsDisjointInBounds(t))
        => \A s \in 1..Len(run[t].populated_outputs) :
              run[t].inputs[s].type \notin FileTypes
              => RoundTrip(t, s)

-----------------------------------------------------------------------------
(* C13 *)

\* The parent directories of the paths of the TextFile / BinaryFile entries
\* of a list of inputs or outputs.
FileParents(items) ==
    {Parent(items[k].data.path) : k \in {j \in 1..Len(items) : items[j].type \in FileTypes}}

\* C13: the preopened directories handed to the WASI environment of a run
\* are exactly the parent directories of the paths of its TextFile and
\* BinaryFile inputs and outputs, each once; inputs and outputs of other
\* kinds contribute nothing.
C13_PreopenDirectories ==
    \A t \in Threads :
        run[t].pc # "idle" =>
        LET dirs == run[t].preopen_directories
            parents == FileParents(run[t].inputs) \cup FileParents(run[t].outputs)
        IN /\ Range(dirs) = parents
           /\ Len(dirs) = Cardinality(parents)

C13_Witness ==
    \E t \in Threads :
        /\ run[t].pc = "instantiate"
        /\ Len(run[t].inputs) = 1
        /\ Len(run[t].outputs) = 1
        /\ run[t].inputs[1].type = "TextFile"
        /\ run[t].outputs[1].type = "TextFile"
        /\ run[t].preopen_directories = <<Parent(run[t].inputs[1].data.path)>>
        /\ Parent(run[t].outputs[1].data.path) = Parent(run[t].inputs[1].data.path)

-----------------------------------------------------------------------------
(* C14 *)

\* The entries of a run's log that carry a slot: guest calls and memory
\* accesses made for the input or output at that list position.
SlotEvents(t, fns, slot) == {e \in At(t, fns) : Log(t)[e].slot = slot}

\* C14: a TextFile or BinaryFile input at slot i causes no input allocator
\* call and no write of guest memory for slot i; a TextFile or BinaryFile
\* output at slot i causes no output accessor call and no read of guest
\* memory for slot i, and the output populated for it has the declared kind
\* and the caller's path.
C14_FilesBypassMemory ==
    \A t \in Threads :
        /\ \A i \in 1..Len(run[t].inputs) :
              run[t].inputs[i].type \in FileTypes
              => SlotEvents(t, InputAllocators \cup {"mem_write"}, i - 1) = {}
        /\ \A i \in 1..Len(run[t].outputs) :
              run[t].outputs[i].type \in FileTypes
              => /\ SlotEvents(t, OutputAccessors \cup {"mem_read"}, i - 1) = {}
                 /\ i <= Len(run[t].populated_outputs)
                    => /\ run[t].populated_outputs[i].type = run[t].outputs[i].type
                       /\ run[t].populated_outputs[i].data.path =
                              run[t].outputs[i].data.path
                 /\ (run[t].pc = "returned" /\ run[t].return_code = 0)
                    => i <= Len(run[t].populated_outputs)

C14_Witness ==
    \E t \in Threads :
        /\ run[t].pc = "returned"
        /\ run[t].return_code = 0
        /\ Len(run[t].outputs) = 2
        /\ run[t].outputs[1].type = "BinaryStream"
        /\ run[t].outputs[2].type = "BinaryFile"
        /\ Len(run[t].populated_outputs) = 2
        /\ SlotEvents(t, OutputAccessors, 0) # {}

-----------------------------------------------------------------------------
(* C15 *)

\* C15: when two runs of the same Pipeline object are interleaved, every
\* allocator or accessor call and every read or write of guest memory made
\* on behalf of a run goes to the exports and the linear memory of the
\* Instance that run created.
C15_OwnInstance ==
    \A t \in Threads :
        \A e \in 1..Len(Log(t)) : Log(t)[e].inst = run[t].inst

-----------------------------------------------------------------------------
(* C16 *)

\* C16: every host read or write of a guest range [ptr, ptr+len) lies within
\* the linear memory: a run that got from an allocator or accessor a range
\* that extends past the end of memory has failed instead, so no run goes on
\* (or returns an output) with fewer bytes than the size the guest reported.
C16_BoundsChecked ==
    \A t \in Threads :
        run[t].pc \in {"inputs", "start", "outputs", "exit"} =>
        \A e \in At(t, {"mem_write", "mem_read"}) :
            Log(t)[e].ret + Log(t)[e].arg <= Len(mem[Log(t)[e].inst])

-----------------------------------------------------------------------------
(* C17 *)

\* The bytes the guest exposes for a sub-buffer of an output slot: what its
\* linear memory holds in the region its output table reports.
ExposedBytes(t, slot, sub) ==
    LET i == run[t].inst
        region == GuestArrayRegion(guest[i], slot, sub)
        cells == Slice(mem[i], region.addr, region.size)
    IN [k \in 1..Len(cells) |-> CellByte(cells[k])]

\* C17: decoding a PolyData output, a zero numberOfPointPixels leaves
\* pointData the empty array of the point pixel component type, a zero
\* numberOfCellPixels leaves cellData the empty array of the cell pixel
\* component type, and neither touches another field: with
\* triangleStripsBufferSize > 0 the triangleStrips returned is the uint32
\* array of the bytes the guest exposes at sub-index 4.
C17_PolyDataEmptyPixels ==
    \A t \in Threads :
        run[t].pc \in {"outputs", "exit"} =>
        \A s \in 1..Len(run[t].populated_outputs) :
            run[t].outputs[s].type = "PolyData" =>
            LET d == run[t].populated_outputs[s].data
            IN /\ d.numberOfPointPixels = 0
                  => HoldsArray(t, s, "pointData",
                                Decoded(EmptyArr(d.polyDataType.pointPixelComponentType)))
               /\ d.numberOfCellPixels = 0
                  => HoldsArray(t, s, "cellData",
                                Decoded(EmptyArr(d.polyDataType.cellPixelComponentType)))
               /\ d.triangleStripsBufferSize > 0
                  => HoldsArray(t, s, "triangleStrips",
                                _memoryview_to_numpy_array(
                                    "uint32", ExposedBytes(t, s - 1, 4)).value)

-----------------------------------------------------------------------------
(* C18 *)

\* Every host access to linear memory in the log comes right after the guest
\* call that returned its address or size: no guest call lies between.
FreshViews(t) ==
    \A e \in At(t, {"mem_write", "mem_read"}) :
        /\ e > 1
        /\ Log(t)[e - 1].fn \in
               IF Log(t)[e].fn = "mem_write" THEN InputAllocators
               ELSE {"itk_wasm_output_array_size", "itk_wasm_output_json_size"}
        /\ Log(t)[e - 1].slot = Log(t)[e].slot
        /\ Log(t)[e - 1].sub = Log(t)[e].sub
        /\ Log(t)[e].fn = "mem_write" => Log(t)[e - 1].ret = Log(t)[e].ret

\* C18: the host uses no view of linear memory across a guest call: each
\* write follows the allocator call that returned its pointer with no guest
\* call between, and the outputs decoded so far are left as they are by every
\* later step of the run, the accessor calls of later slots and
\* itk_wasm_delayed_exit included.
C18_NoStaleViews ==
    [][\A t \in Threads :
          /\ FreshViews(t)
          /\ (run[t].pc \in {"outputs", "exit"}
              /\ run'[t].pc \in {"outputs", "exit", "returned"})
             => \A s \in 1..Len(run[t].populated_outputs) :
                    run'[t].populated_outputs[s] = run[t].populated_outputs[s]]_vars

\* A run returned a stream or an image whose bytes are not all zero after the
\* guest's exit handlers cleared its memory.
C18_Witness ==
    \E t \in Threads :
        /\ run[t].pc = "returned"
        /\ Log(t)[Len(Log(t))].fn = "itk_wasm_delayed_exit"
        /\ \E s \in 1..Len(run[t].populated_outputs) :
              /\ run[t].outputs[s].type = "BinaryStream"
              /\ \E k \in 1..Len(run[t].populated_outputs[s].data.data) :
                    run[t].populated_outputs[s].data.data[k] # 0
        /\ \E e \in At(t, {"mem_write"}) : Log(t)[e].arg > 0

-----------------------------------------------------------------------------
(* C19 *)

\* An element of the returned tuple is a PipelineOutput (not None).
IsPipelineOutput(o) == "type" \in DOMAIN o

\* The accessor calls of a run, in the order made, carry non-decreasing
\* slots, all of them slots of the declared output list.
AccessorsInSlotOrder(t) ==
    \A e, f \in At(t, OutputAccessors) :
        /\ Log(t)[e].slot \in 0..(Len(run[t].outputs) - 1)
        /\ e < f => Log(t)[e].slot <= Log(t)[f].slot

\* C19: when delayed_start returned 0, run returns a tuple with one element
\* per declared output; the element at position i is a populated
\* PipelineOutput of the kind declared at position i, never a placeholder,
\* and the accessor calls were made in increasing slot order.
C19_OneOutputPerSlot ==
    \A t \in Threads :
        (run[t].pc = "returned" /\ run[t].return_code = 0) =>
        /\ Len(run[t].populated_outputs) = Len(run[t].outputs)
        /\ AccessorsInSlotOrder(t)
        /\ \A s \in 1..Len(run[t].populated_outputs) :
              /\ IsPipelineOutput(run[t].populated_outputs[s])
              /\ run[t].populated_outputs[s].type = run[t].outputs[s].type

-----------------------------------------------------------------------------
(* C20 *)

\* C20: decoding an output slot of a kind other than the file kinds begins
\* with output_json_address and output_json_size for the slot: in a run's
\* log every output_array_address or output_array_size call for a slot comes
\* after an output_json_address call and an output_json_size call for it.
C20_DescriptorFirst ==
    \A t \in Threads :
        \A e \in At(t, {"itk_wasm_output_array_address",
                        "itk_wasm_output_array_size"}) :
            /\ \E a \in At(t, {"itk_wasm_output_json_address"}) :
                  a < e /\ Log(t)[a].slot = Log(t)[e].slot
            /\ \E z \in At(t, {"itk_wasm_output_json_size"}) :
                  z < e /\ Log(t)[z].slot = Log(t)[e].slot

-----------------------------------------------------------------------------
(* C21 *)

\* The calls and memory accesses that go through a handle cached on the
\* Pipeline object.
ThroughCachedHandle ==
    InputAllocators \cup OutputAccessors \cup {"mem_read", "mem_write"}

\* C21: when the runs on one Pipeline object do not overlap, the k-th run
\* creates instance k, and every allocator call, accessor call and memory
\* access it makes goes to instance k: once the run is past instantiation
\* every handle cached on the Pipeline is a handle of instance k, also after
\* earlier runs that returned or raised part-way.
C21_SequentialRunsOwnInstance ==
    \A t \in active :
        /\ run[t].pc # "idle" => run[t].inst = nruns
        /\ \A e \in At(t, ThroughCachedHandle) : Log(t)[e].inst = run[t].inst
        /\ run[t].pc \in {"initialize", "inputs", "start", "outputs", "exit"}
           => \A f \in Range(CachedExports) : self[f] = run[t].inst

\* A later run than the first staged an input and decoded an output.
C21_Witness ==
    \E t \in active :
        /\ run[t].inst > 1
        /\ run[t].pc = "returned"
        /\ Len(run[t].populated_outputs) > 0
        /\ \E e \in At(t, InputAllocators) : Log(t)[e].inst = run[t].inst
        /\ \E e \in At(t, OutputAccessors) : Log(t)[e].inst = run[t].inst
        /\ \E e \in At(t, {"mem_read"}) : Log(t)[e].arg > 0

-----------------------------------------------------------------------------

Next ==
    \E t \in Threads :
        \/ Run(t)
        \/ Instantiate(t)
        \/ Initialize(t)
        \/ StageInput(t)
        \/ DelayedStart(t)
        \/ DecodeOutput(t)
        \/ DelayedExit(t)
        \/ Done(t)

Spec == Init /\ [][Next]_vars

NextShared ==
    \E t \in Threads :
        \/ RunShared(t)
        \/ Instantiate(t)
        \/ Initialize(t)
        \/ StageInput(t)
        \/ DelayedStart(t)
        \/ DecodeOutput(t)
        \/ DelayedExit(t)
        \/ Done(t)

SpecShared == InitShared /\ [][NextShared]_vars
====
